---- MODULE Spec2Model ----
(***************************************************************************)
(* Quantum walks on graphs: the discrete coined-walk circuit builder and   *)
(* executor (coined_walk.py), the Hamiltonian builders and the continuous  *)
(* evolver (continuous_walk.py, search.py), the time-sweep search          *)
(* (search.py) and the classical hitting-time estimator (graph_utils.py).  *)
(*                                                                         *)
(* Numbers.  Amplitudes of the circuit simulation are kept as integers:    *)
(* every gate matrix is real, and is multiplied by a positive scalar that  *)
(* makes its entries integers (Hadamard by sqrt 2, the Grover coin by its  *)
(* dimension), which changes no ratio of outcome weights.  Real parameters *)
(* (gamma, matrix entries, probabilities) are rationals <<num, den>>.      *)
(* The amplitudes 1/sqrt(n) of the search's uniform superposition are the  *)
(* surds [num |-> 1, sqrt_of_den |-> n], i.e. num / sqrt(sqrt_of_den).     *)
(***************************************************************************)
EXTENDS Integers, Sequences, FiniteSets

\* ------------------------------------------------------------------ bounds
MaxK == 2          \* n_position_qubits ranges over 1..MaxK
MaxSteps == 2      \* n_steps ranges over 0..MaxSteps
MaxShots == 2      \* shots ranges over 1..MaxShots
MaxN == 3          \* graphs of the Hamiltonian builders have 1..MaxN nodes
MaxNodes == 3      \* the search runs on built graphs of 1..MaxNodes nodes
MaxT == 3          \* n_time_steps ranges over 0..MaxT
MaxP == 2          \* a success probability is one of 0/MaxP .. MaxP/MaxP
MaxHitNodes == 3   \* the random walk runs on built graphs of 1..MaxHitNodes nodes
MaxTrials == 2     \* n_trials ranges over 0..MaxTrials

VARIABLES
  \* coined_walk.py
  w_pc,               \* position in build_coined_walk_circuit / run_coined_walk
  coin_type, n_position_qubits, n_steps, shots,
  n_coin, qc, step,
  amp,                \* the simulator's state vector (scaled integer amplitudes)
  ip,                 \* index of the next instruction of qc the simulator applies
  clbits,             \* classical bit i |-> the qubit measured into it (-1: none)
  counts,             \* job.result().get_counts(): bitstring |-> count
  shot,               \* shots sampled so far
  probabilities,
  \* the graph handed to continuous_walk.py / search.py / graph_utils.py
  graph_n,            \* graph.number_of_nodes(); nodes are 0..graph_n-1
  A,                  \* nx.adjacency_matrix(graph).todense()
  \* continuous_walk.py, search.py: the Hamiltonian builders and the evolver
  h_pc, h_fn,
  marked_vertex, gamma, oracle, H,
  initial_node, time, psi_0, psi_t,
  \* search.py: search_continuous_walk
  s_pc, n_time_steps, times, marked_prob, success_probs, s_i, result,
  \* graph_utils.py: classical_hitting_time
  t_pc, start, target, n_trials, trial, current, steps, total_steps, average

walkVars == <<w_pc, coin_type, n_position_qubits, n_steps, shots, n_coin, qc,
              step, amp, ip, clbits, counts, shot, probabilities>>

graphVars == <<graph_n, A>>

hamVars == <<h_pc, h_fn, marked_vertex, gamma, oracle, H, initial_node, time,
             psi_0, psi_t>>

searchVars == <<s_pc, n_time_steps, times, marked_prob, success_probs, s_i, result>>

hitVars == <<t_pc, start, target, n_trials, trial, current, steps, total_steps,
             average>>

vars == <<walkVars, graphVars, hamVars, searchVars, hitVars>>

\* ------------------------------------------------------------ arithmetic
RECURSIVE Pow2(_)
Pow2(n) == IF n <= 0 THEN 1 ELSE 2 * Pow2(n - 1)

Bit(x, q) == (x \div Pow2(q)) % 2

FlipBit(x, q) == IF Bit(x, q) = 1 THEN x - Pow2(q) ELSE x + Pow2(q)

RECURSIVE SumSeq(_)
SumSeq(s) == IF s = <<>> THEN 0 ELSE Head(s) + SumSeq(Tail(s))

Range(s) == {s[i] : i \in DOMAIN s}

\* ------------------------------------------------------- circuit: gates
NoBit == -1

HGate(q) ==
  [op |-> "h", ctrl |-> <<>>, tgt |-> <<q>>, clbit |-> NoBit, label |-> NoBit]

UnitaryGate(qubits, s) ==
  [op |-> "unitary", ctrl |-> <<>>, tgt |-> qubits, clbit |-> NoBit, label |-> s]

CXGate(c, t) ==
  [op |-> "cx", ctrl |-> <<c>>, tgt |-> <<t>>, clbit |-> NoBit, label |-> NoBit]

MCXGate(cs, t) ==
  [op |-> "mcx", ctrl |-> cs, tgt |-> <<t>>, clbit |-> NoBit, label |-> NoBit]

MeasureGate(q, c) ==
  [op |-> "measure", ctrl |-> <<>>, tgt |-> <<q>>, clbit |-> c, label |-> NoBit]

\* grover_coin(n_coin_qubits), times dim: (2.0/dim)*ones - eye
grover_coin(nc) ==
  [r \in 0..(Pow2(nc) - 1) |-> [c \in 0..(Pow2(nc) - 1) |->
     IF r = c THEN 2 - Pow2(nc) ELSE 2]]

\* ------------------------------------------- build_coined_walk_circuit
CoinTypes == {"grover", "hadamard", "qft"}

NCoin(ct, k) == IF ct = "hadamard" THEN 1 ELSE k

CoinQubits(nc) == [i \in 1..nc |-> i - 1]

PosQubits(nc, ntot) == [i \in 1..(ntot - nc) |-> nc + i - 1]

\* for q in coin_qubits: qc.h(q)
CoinInitGates(cq) == [i \in 1..Len(cq) |-> HGate(cq[i])]

\* the coin operator of one step
CoinGate(ct, nc, cq, s) ==
  IF ct = "hadamard" /\ nc = 1 THEN HGate(cq[1]) ELSE UnitaryGate(cq, s)

\* the shift of one step: cx, then the mcx chain in increasing i
ShiftGates(cq, pq) ==
  <<CXGate(cq[1], pq[1])>> \o
  [j \in 1..(Len(pq) - 1) |->
     MCXGate(SubSeq(cq, 1, 1) \o SubSeq(pq, 1, j), pq[j + 1])]

\* one iteration of `for step in range(n_steps)`
StepGatesShiftFirst(ct, nc, cq, pq, s) ==
  ShiftGates(cq, pq) \o <<CoinGate(ct, nc, cq, s)>>

StepGates(ct, nc, cq, pq, s) ==
  <<CoinGate(ct, nc, cq, s)>> \o ShiftGates(cq, pq)

\* for i, q in enumerate(pos_qubits): qc.measure(q, i)
MeasureGates(pq) == [i \in 1..Len(pq) |-> MeasureGate(pq[i], i - 1)]

\* `for step in range(n_steps)`: whether iteration s runs
StepRunsOneMore(s, n) == s <= n

StepRuns(s, n) == s < n

coin_qubits == CoinQubits(n_coin)
pos_qubits == PosQubits(n_coin, n_position_qubits + n_coin)
n_total == n_position_qubits + n_coin

\* ------------------------------------------------ AerSimulator: gates
Basis(nq) == 0..(Pow2(nq) - 1)

CtrlOn(x, cs) == \A i \in DOMAIN cs : Bit(x, cs[i]) = 1

\* a classical reversible gate (cx, mcx) on one basis state
ApplyBasis(g, x) == IF CtrlOn(x, g.ctrl) THEN FlipBit(x, g.tgt[1]) ELSE x

RECURSIVE RunBasis(_, _)
RunBasis(gs, x) ==
  IF gs = <<>> THEN x ELSE RunBasis(Tail(gs), ApplyBasis(Head(gs), x))

\* the index, within the register `qs`, of basis state x
RegValue(x, qs) == SumSeq([i \in DOMAIN qs |-> Bit(x, qs[i]) * Pow2(i - 1)])

\* x with register `qs` set to value v
RECURSIVE WithReg(_, _, _)
WithReg(x, qs, v) ==
  IF qs = <<>> THEN x
  ELSE LET q == Head(qs)
           y == IF Bit(x, q) = v % 2 THEN x ELSE FlipBit(x, q)
       IN  WithReg(y, Tail(qs), v \div 2)

ApplyGate(g, a, nq) ==
  CASE g.op = "h" ->
         [x \in Basis(nq) |->
            LET q == g.tgt[1]
            IN  IF Bit(x, q) = 0 THEN a[x] + a[FlipBit(x, q)]
                ELSE a[FlipBit(x, q)] - a[x]]
    [] g.op = "unitary" ->
         LET m == grover_coin(Len(g.tgt))
         IN  [x \in Basis(nq) |->
                SumSeq([c \in 1..Pow2(Len(g.tgt)) |->
                   m[RegValue(x, g.tgt)][c - 1] * a[WithReg(x, g.tgt, c - 1)]])]
    [] g.op \in {"cx", "mcx"} ->
         [x \in Basis(nq) |-> a[ApplyBasis(g, x)]]
    [] OTHER -> a

\* ------------------------------------------------------- run_coined_walk
\* the bitstring of an outcome: classical bit 0 is the rightmost character
Bitstring(v, k) == [j \in 1..k |-> Bit(v, k - j)]

\* int(bitstring, 2)
RECURSIVE ParseBinary(_)
ParseBinary(bs) ==
  IF bs = <<>> THEN 0
  ELSE 2 * ParseBinary(SubSeq(bs, 1, Len(bs) - 1)) + bs[Len(bs)]

\* the value the classical register reads in basis state x
ClassicalValue(x, cl) ==
  SumSeq([i \in DOMAIN cl |-> IF cl[i] = NoBit THEN 0 ELSE Bit(x, cl[i]) * Pow2(i - 1)])

\* Born weight of classical outcome v
Weight(v, a, cl, nq) ==
  SumSeq([i \in 1..Pow2(nq) |->
     IF ClassicalValue(i - 1, cl) = v THEN a[i - 1] * a[i - 1] ELSE 0])

Outcomes(a, cl, nq) == {v \in 0..(Pow2(Len(cl)) - 1) : Weight(v, a, cl, nq) > 0}

WalkInit ==
  /\ w_pc = "idle"
  /\ coin_type = "grover"
  /\ n_position_qubits = 1
  /\ n_steps = 0
  /\ shots = 1
  /\ n_coin = 0
  /\ qc = <<>>
  /\ step = 0
  /\ amp = <<>>
  /\ ip = 0
  /\ clbits = <<>>
  /\ counts = <<>>
  /\ shot = 0
  /\ probabilities = <<>>

\* build_coined_walk_circuit(n_position_qubits, n_steps, coin_type): registers
BuildCall ==
  /\ w_pc = "idle"
  /\ \E k \in 1..MaxK, n \in 0..MaxSteps, ct \in CoinTypes, sh \in 1..MaxShots :
       /\ n_position_qubits' = k
       /\ n_steps' = n
       /\ coin_type' = ct
       /\ shots' = sh
       /\ n_coin' = NCoin(ct, k)
  /\ qc' = <<>>
  /\ w_pc' = "coin_init"
  /\ UNCHANGED <<step, amp, ip, clbits, counts, shot, probabilities>>
  /\ UNCHANGED <<graphVars, hamVars, searchVars, hitVars>>

\* initial superposition on coin
CoinInit ==
  /\ w_pc = "coin_init"
  /\ qc' = qc \o CoinInitGates(coin_qubits)
  /\ step' = 0
  /\ w_pc' = "steps"
  /\ UNCHANGED <<coin_type, n_position_qubits, n_steps, shots, n_coin, amp, ip,
                 clbits, counts, shot, probabilities>>
  /\ UNCHANGED <<graphVars, hamVars, searchVars, hitVars>>

\* one walk step: coin operator, then conditional shift
WalkStep ==
  /\ w_pc = "steps"
  /\ StepRuns(step, n_steps)
  /\ qc' = qc \o StepGates(coin_type, n_coin, coin_qubits, pos_qubits, step)
  /\ step' = step + 1
  /\ UNCHANGED <<w_pc, coin_type, n_position_qubits, n_steps, shots, n_coin, amp,
                 ip, clbits, counts, shot, probabilities>>
  /\ UNCHANGED <<graphVars, hamVars, searchVars, hitVars>>

\* measure position register; return qc
MeasureAndReturn ==
  /\ w_pc = "steps"
  /\ ~StepRuns(step, n_steps)
  /\ qc' = qc \o MeasureGates(pos_qubits)
  /\ w_pc' = "built"
  /\ UNCHANGED <<coin_type, n_position_qubits, n_steps, shots, n_coin, step, amp,
                 ip, clbits, counts, shot, probabilities>>
  /\ UNCHANGED <<graphVars, hamVars, searchVars, hitVars>>

\* backend.run(qc, shots=shots): all qubits start in |0>
Submit ==
  /\ w_pc = "built"
  /\ amp' = [x \in Basis(n_total) |-> IF x = 0 THEN 1 ELSE 0]
  /\ clbits' = [i \in 1..n_position_qubits |-> NoBit]
  /\ ip' = 1
  /\ w_pc' = "sim"
  /\ UNCHANGED <<coin_type, n_position_qubits, n_steps, shots, n_coin, qc, step,
                 counts, shot, probabilities>>
  /\ UNCHANGED <<graphVars, hamVars, searchVars, hitVars>>

\* the simulator applies the next instruction
SimGate ==
  /\ w_pc = "sim"
  /\ ip <= Len(qc)
  /\ amp' = ApplyGate(qc[ip], amp, n_total)
  /\ clbits' = IF qc[ip].op = "measure"
               THEN [clbits EXCEPT ![qc[ip].clbit + 1] = qc[ip].tgt[1]]
               ELSE clbits
  /\ ip' = ip + 1
  /\ UNCHANGED <<w_pc, coin_type, n_position_qubits, n_steps, shots, n_coin, qc,
                 step, counts, shot, probabilities>>
  /\ UNCHANGED <<graphVars, hamVars, searchVars, hitVars>>

SimEnd ==
  /\ w_pc = "sim"
  /\ ip > Len(qc)
  /\ counts' = [v \in 0..(Pow2(n_position_qubits) - 1) |-> 0]
  /\ shot' = 0
  /\ w_pc' = "sampling"
  /\ UNCHANGED <<coin_type, n_position_qubits, n_steps, shots, n_coin, qc, step,
                 amp, ip, clbits, probabilities>>
  /\ UNCHANGED <<graphVars, hamVars, searchVars, hitVars>>

\* one shot: an outcome of non-zero Born weight
Shot ==
  /\ w_pc = "sampling"
  /\ shot < shots
  /\ \E v \in Outcomes(amp, clbits, n_total) :
       counts' = [counts EXCEPT ![v] = @ + 1]
  /\ shot' = shot + 1
  /\ UNCHANGED <<w_pc, coin_type, n_position_qubits, n_steps, shots, n_coin, qc,
                 step, amp, ip, clbits, probabilities>>
  /\ UNCHANGED <<graphVars, hamVars, searchVars, hitVars>>

\* probabilities[int(bitstring, 2)] = count / shots, over the observed bitstrings
Aggregate ==
  /\ w_pc = "sampling"
  /\ shot = shots
  /\ probabilities' =
       [idx \in 0..(Pow2(n_position_qubits) - 1) |->
          LET keys == {v \in DOMAIN counts :
                         /\ counts[v] > 0
                         /\ ParseBinary(Bitstring(v, n_position_qubits)) = idx}
          IN  IF keys = {} THEN <<0, 1>>
              ELSE <<counts[CHOOSE v \in keys : TRUE], shots>>]
  /\ w_pc' = "done"
  /\ UNCHANGED <<coin_type, n_position_qubits, n_steps, shots, n_coin, qc, step,
                 amp, ip, clbits, counts, shot>>
  /\ UNCHANGED <<graphVars, hamVars, searchVars, hitVars>>

\* ------------------------------------------------------------ rationals
FromInt(i) == <<i, 1>>
RatNeg(a) == <<-a[1], a[2]>>
RatMul(a, b) == <<a[1] * b[1], a[2] * b[2]>>
RatAdd(a, b) == <<a[1] * b[2] + b[1] * a[2], a[2] * b[2]>>
RatEq(a, b) == a[1] * b[2] = b[1] * a[2]

\* ---------------------------------------------------------------- graphs
Nodes(n) == 0..(n - 1)

NoGraph == [i \in {} |-> 0]

\* undirected graphs on n nodes, self-loops allowed: symmetric 0/1 matrices
Pairs(n) == {e \in Nodes(n) \X Nodes(n) : e[1] <= e[2]}

AdjacencyOf(n, es) ==
  [i \in Nodes(n) |-> [j \in Nodes(n) |->
     IF <<i, j>> \in es \/ <<j, i>> \in es THEN 1 ELSE 0]]

Graphs(n) == {AdjacencyOf(n, es) : es \in SUBSET Pairs(n)}

\* sample coupling constants and times (reals, as rationals)
Gammas == {<<-1, 1>>, <<0, 1>>, <<1, 1>>, <<1, 2>>, <<2, 3>>, <<2, 1>>}
Times == {<<0, 1>>, <<1, 2>>, <<3, 1>>, <<-1, 1>>}

\* ------------------------------------------------------- numpy indexing
\* a[i] on an axis of length n: negative indices count from the end
InBounds(i, n) == -n <= i /\ i < n

NpIndex(i, n) == IF i < 0 THEN i + n ELSE i

\* ------------------------------------------------------------- search.py
\* oracle = np.zeros((n, n)); oracle[marked_vertex, marked_vertex] = 1.0
OracleWholeRow(n, mv) ==
  [i \in Nodes(n) |-> [j \in Nodes(n) |->
     IF i = NpIndex(mv, n) THEN FromInt(1) ELSE FromInt(0)]]

OracleProjector(n, mv) ==
  [i \in Nodes(n) |-> [j \in Nodes(n) |->
     IF i = NpIndex(mv, n) /\ j = NpIndex(mv, n) THEN FromInt(1) ELSE FromInt(0)]]

\* H = -gamma * A + oracle
build_search_hamiltonian(n, a, orc, g) ==
  [i \in Nodes(n) |-> [j \in Nodes(n) |->
     RatAdd(RatMul(RatNeg(g), FromInt(a[i][j])), orc[i][j])]]

\* ----------------------------------------------------- continuous_walk.py
\* return np.array(nx.adjacency_matrix(graph).todense(), dtype=float)
adjacency_hamiltonian(n, a) ==
  [i \in Nodes(n) |-> [j \in Nodes(n) |-> FromInt(a[i][j])]]

\* the matrix M of expm(M) in evolve_continuous_walk, as the coefficient of the
\* imaginary unit: -1j * gamma * A * time
EvolveExponent(n, a, g, t) ==
  [i \in Nodes(n) |-> [j \in Nodes(n) |->
     RatMul(RatMul(RatNeg(g), a[i][j]), t)]]

HamInit ==
  /\ h_pc = "idle"
  /\ h_fn = "none"
  /\ marked_vertex = 0
  /\ gamma = FromInt(1)
  /\ oracle = NoGraph
  /\ H = NoGraph
  /\ initial_node = 0
  /\ time = FromInt(0)
  /\ psi_0 = <<>>
  /\ psi_t = <<>>

GraphInit ==
  /\ graph_n = 0
  /\ A = NoGraph

\* build_search_hamiltonian(graph, marked_vertex, gamma)
BuildSearchHamiltonianCall ==
  /\ h_pc = "idle"
  /\ h_fn' = "build_search_hamiltonian"
  /\ \E n \in 1..MaxN :
       \E a \in Graphs(n), mv \in (-(n + 1))..n, g \in Gammas :
         /\ graph_n' = n
         /\ A' = a
         /\ marked_vertex' = mv
         /\ gamma' = g
         /\ IF InBounds(mv, n)
            THEN /\ oracle' = OracleProjector(n, mv)
                 /\ H' = build_search_hamiltonian(n, a, oracle', g)
                 /\ h_pc' = "returned"
            ELSE /\ oracle' = NoGraph
                 /\ H' = NoGraph
                 /\ h_pc' = "IndexError"
  /\ UNCHANGED <<initial_node, time, psi_0, psi_t>>
  /\ UNCHANGED <<walkVars, searchVars, hitVars>>

\* adjacency_hamiltonian(graph)
AdjacencyHamiltonianCall ==
  /\ h_pc = "idle"
  /\ h_fn' = "adjacency_hamiltonian"
  /\ \E n \in 1..MaxN :
       \E a \in Graphs(n) :
         /\ graph_n' = n
         /\ A' = a
         /\ H' = adjacency_hamiltonian(n, a)
  /\ h_pc' = "returned"
  /\ UNCHANGED <<marked_vertex, gamma, oracle, initial_node, time, psi_0, psi_t>>
  /\ UNCHANGED <<walkVars, searchVars, hitVars>>

\* evolve_continuous_walk(graph, initial_node, time, gamma)
EvolveCall ==
  /\ h_pc = "idle"
  /\ h_fn' = "evolve_continuous_walk"
  /\ \E n \in 1..MaxN :
       \E a \in Graphs(n), v \in (-(n + 1))..n, g \in Gammas, t \in Times :
         /\ graph_n' = n
         /\ A' = a
         /\ initial_node' = v
         /\ gamma' = g
         /\ time' = t
         /\ H' = adjacency_hamiltonian(n, a)
         /\ IF InBounds(v, n)
            THEN /\ psi_0' = [i \in Nodes(n) |-> IF i = NpIndex(v, n) THEN 1 ELSE 0]
                 /\ psi_t' = [expm_i |-> EvolveExponent(n, H', g, t), on |-> psi_0']
                 /\ h_pc' = "returned"
            ELSE /\ psi_0' = <<>>
                 /\ psi_t' = <<>>
                 /\ h_pc' = "IndexError"
  /\ UNCHANGED <<marked_vertex, oracle>>
  /\ UNCHANGED <<walkVars, searchVars, hitVars>>

HamNext ==
  \/ BuildSearchHamiltonianCall
  \/ AdjacencyHamiltonianCall
  \/ EvolveCall


\* --------------------------------------------- graph_utils.py: builders
\* get_graph_builders(): 'Complete', 'Cycle', 'Star'
GraphBuilders == {"Complete", "Cycle", "Star"}

\* nx.complete_graph(n)
build_complete_graph(n) ==
  [i \in Nodes(n) |-> [j \in Nodes(n) |-> IF i # j THEN 1 ELSE 0]]

\* nx.cycle_graph(n): edges i -- (i+1) mod n (a self-loop when n = 1)
build_cycle(n) ==
  [i \in Nodes(n) |-> [j \in Nodes(n) |->
     IF j = (i + 1) % n \/ i = (j + 1) % n THEN 1 ELSE 0]]

\* nx.star_graph(n - 1): centre 0, leaves 1..n-1
build_star(n) ==
  [i \in Nodes(n) |-> [j \in Nodes(n) |->
     IF i # j /\ (i = 0 \/ j = 0) THEN 1 ELSE 0]]

BuiltGraph(b, n) ==
  CASE b = "Complete" -> build_complete_graph(n)
    [] b = "Cycle" -> build_cycle(n)
    [] OTHER -> build_star(n)

\* ------------------------------------------- search_continuous_walk
\* np.linspace(0, time, n), each sample as a fraction <<num, den>> of `time`
Linspace(n) ==
  [i \in 1..n |-> IF n = 1 THEN <<0, 1>> ELSE <<i - 1, n - 1>>]

\* np.argmax: the first index of the maximum
ArgMaxLast(s) ==
  CHOOSE j \in DOMAIN s :
    /\ \A k \in DOMAIN s : s[k] <= s[j]
    /\ \A k \in DOMAIN s : k > j => s[k] < s[j]

ArgMax(s) ==
  CHOOSE j \in DOMAIN s :
    /\ \A k \in DOMAIN s : s[k] <= s[j]
    /\ \A k \in DOMAIN s : k < j => s[k] < s[j]

\* the sample the loop body stores at index i (1-based): |psi_t[marked]|^2 at times[i]
SampleAt(mp, ts, i) == mp[ts[i]]

\* psi_0 = np.ones(n, dtype=complex) / np.sqrt(n): every amplitude is
\* 1/sqrt(n), kept exactly as the surd [num |-> 1, sqrt_of_den |-> n], which
\* stands for num / sqrt(sqrt_of_den)
InvSqrt(n) == [num |-> 1, sqrt_of_den |-> n]

UniformSuperposition(n) == [i \in Nodes(n) |-> InvSqrt(n)]

SearchInit ==
  /\ s_pc = "idle"
  /\ n_time_steps = 0
  /\ times = <<>>
  /\ marked_prob = <<>>
  /\ success_probs = <<>>
  /\ s_i = 0
  /\ result = <<>>

\* search_continuous_walk up to the sweep: defaults, times, psi_0, H.
\* marked_prob stands for t |-> |(expm(-1j*H*t) @ psi_0)[marked_vertex]|^2, the
\* numerical evolution, whose values the model leaves open (in units of 1/MaxP).
SearchCall ==
  /\ s_pc = "idle"
  /\ \E b \in GraphBuilders, n \in 1..MaxNodes, nts \in 0..MaxT :
       \E mv \in (-(n + 1))..n, g \in {<<1, n>>, <<1, 1>>},
          mp \in [Range(Linspace(nts)) -> 0..MaxP] :
         /\ graph_n' = n
         /\ A' = BuiltGraph(b, n)
         /\ marked_vertex' = mv
         /\ gamma' = g
         /\ n_time_steps' = nts
         /\ times' = Linspace(nts)
         /\ marked_prob' = mp
         /\ IF InBounds(mv, n)
            THEN /\ oracle' = OracleProjector(n, mv)
                 /\ H' = build_search_hamiltonian(n, A', oracle', g)
                 /\ success_probs' = [i \in 1..nts |-> 0]
                 /\ s_pc' = "sweep"
            ELSE /\ oracle' = NoGraph
                 /\ H' = NoGraph
                 /\ success_probs' = <<>>
                 /\ s_pc' = "IndexError"
  /\ psi_0' = UniformSuperposition(graph_n')
  /\ s_i' = 0
  /\ UNCHANGED <<result, h_pc, h_fn, initial_node, time, psi_t>>
  /\ UNCHANGED <<walkVars, hitVars>>

\* for i, t in enumerate(times): success_probs[i] = |psi_t[marked_vertex]|^2
SweepStep ==
  /\ s_pc = "sweep"
  /\ s_i < Len(times)
  /\ success_probs' =
       [success_probs EXCEPT ![s_i + 1] = SampleAt(marked_prob, times, s_i + 1)]
  /\ s_i' = s_i + 1
  /\ UNCHANGED <<s_pc, n_time_steps, times, marked_prob, result>>
  /\ UNCHANGED <<walkVars, graphVars, hamVars, hitVars>>

\* optimal_idx = np.argmax(success_probs); return the result dict
SearchReturn ==
  /\ s_pc = "sweep"
  /\ s_i = Len(times)
  /\ IF Len(success_probs) = 0
     THEN /\ s_pc' = "ValueError"
          /\ result' = <<>>
     ELSE /\ s_pc' = "done"
          /\ result' =
               LET optimal_idx == ArgMax(success_probs)
               IN  [optimal_time |-> times[optimal_idx],
                    max_probability |-> success_probs[optimal_idx],
                    times |-> times,
                    success_probs |-> success_probs]
  /\ UNCHANGED <<n_time_steps, times, marked_prob, success_probs, s_i>>
  /\ UNCHANGED <<walkVars, graphVars, hamVars, hitVars>>

SearchNext ==
  \/ SearchCall
  \/ SweepStep
  \/ SearchReturn

\* --------------------------------------------- classical_hitting_time
\* list(graph.neighbors(v))
Neighbors(a, v) == {j \in DOMAIN a : a[v][j] = 1}

\* if steps > 10 * len(nodes) ** 2: break
ExceedsCapCubed(st, n) == st > 10 * n * n * n

ExceedsCap(st, n) == st > 10 * n * n

HitInit ==
  /\ t_pc = "idle"
  /\ start = 0
  /\ target = 0
  /\ n_trials = 0
  /\ trial = 0
  /\ current = 0
  /\ steps = 0
  /\ total_steps = 0
  /\ average = <<>>

\* classical_hitting_time(graph, start, target, n_trials): rng, total_steps = 0
HitCall ==
  /\ t_pc = "idle"
  /\ \E b \in GraphBuilders, n \in 1..MaxHitNodes :
       \E st \in Nodes(n), tg \in 0..n, nt \in 0..MaxTrials :
         /\ graph_n' = n
         /\ A' = BuiltGraph(b, n)
         /\ start' = st
         /\ target' = tg
         /\ n_trials' = nt
  /\ total_steps' = 0
  /\ trial' = 0
  /\ t_pc' = "trials"
  /\ UNCHANGED <<current, steps, average>>
  /\ UNCHANGED <<walkVars, hamVars, searchVars>>

\* for _ in range(n_trials): current = start; steps = 0
TrialStart ==
  /\ t_pc = "trials"
  /\ trial < n_trials
  /\ current' = start
  /\ steps' = 0
  /\ t_pc' = "walking"
  /\ UNCHANGED <<start, target, n_trials, trial, total_steps, average>>
  /\ UNCHANGED <<walkVars, graphVars, hamVars, searchVars>>

\* one iteration of `while current != target`
WalkerStep ==
  /\ t_pc = "walking"
  /\ current # target
  /\ IF Neighbors(A, current) = {}
     THEN /\ t_pc' = "ValueError"
          /\ UNCHANGED <<current, steps, total_steps, trial>>
     ELSE /\ \E nb \in Neighbors(A, current) : current' = nb
          /\ steps' = steps + 1
          /\ IF ExceedsCap(steps', graph_n)
             THEN /\ total_steps' = total_steps + steps'
                  /\ trial' = trial + 1
                  /\ t_pc' = "trials"
             ELSE UNCHANGED <<total_steps, trial, t_pc>>
  /\ UNCHANGED <<start, target, n_trials, average>>
  /\ UNCHANGED <<walkVars, graphVars, hamVars, searchVars>>

\* the loop condition fails: total_steps += steps
TrialEnd ==
  /\ t_pc = "walking"
  /\ current = target
  /\ total_steps' = total_steps + steps
  /\ trial' = trial + 1
  /\ t_pc' = "trials"
  /\ UNCHANGED <<start, target, n_trials, current, steps, average>>
  /\ UNCHANGED <<walkVars, graphVars, hamVars, searchVars>>

\* return total_steps / n_trials
HitReturn ==
  /\ t_pc = "trials"
  /\ trial = n_trials
  /\ IF n_trials = 0
     THEN /\ t_pc' = "ZeroDivisionError"
          /\ UNCHANGED average
     ELSE /\ t_pc' = "done"
          /\ average' = <<total_steps, n_trials>>
  /\ UNCHANGED <<start, target, n_trials, trial, current, steps, total_steps>>
  /\ UNCHANGED <<walkVars, graphVars, hamVars, searchVars>>

HitNext ==
  \/ HitCall
  \/ TrialStart
  \/ WalkerStep
  \/ TrialEnd
  \/ HitReturn

WalkNext ==
  \/ BuildCall
  \/ CoinInit
  \/ WalkStep
  \/ MeasureAndReturn
  \/ Submit
  \/ SimGate
  \/ SimEnd
  \/ Shot
  \/ Aggregate

Init == WalkInit /\ GraphInit /\ HamInit /\ SearchInit /\ HitInit

SpecWalk == Init /\ [][WalkNext]_vars

SpecHam == Init /\ [][HamNext]_vars

SpecSearch == Init /\ [][SearchNext]_vars

SpecHit == Init /\ [][HitNext]_vars

\* the call runs to completion: a sequential loop, never suspended
SpecHitFair == SpecHit /\ WF_vars(HitNext)

\* ------------------------------------------------ claims: coined walk
Returned == {"built", "sim", "sampling", "done"}

\* where step s starts in the returned gate sequence, as the claims lay it out
ClaimNCoin == IF coin_type = "hadamard" THEN 1 ELSE n_position_qubits
ClaimStride == 1 + n_position_qubits
ClaimStepBase(s) == ClaimNCoin + s * ClaimStride
ClaimShiftOf(s) ==
  SubSeq(qc, ClaimStepBase(s) + 2, ClaimStepBase(s) + 1 + n_position_qubits)
ClaimPosQubits == [i \in 1..n_position_qubits |-> ClaimNCoin + i - 1]
ClaimPosValue(x) == RegValue(x, ClaimPosQubits)

\* C1: in every step of a returned circuit the shift gates take a basis state
\* with first coin qubit 1 and position p < 2^k - 1 to position p + 1, and leave
\* the position alone when the first coin qubit is 0.
C1_ShiftIncrements ==
  w_pc \in Returned =>
    \A s \in 0..(n_steps - 1) : \A x \in Basis(n_total) :
      LET p == ClaimPosValue(x)
          y == RunBasis(ClaimShiftOf(s), x)
      IN  /\ (Bit(x, 0) = 1 /\ p < Pow2(n_position_qubits) - 1)
               => ClaimPosValue(y) = p + 1
          /\ Bit(x, 0) = 0 => ClaimPosValue(y) = p

\* C4: for a coin_type other than 'grover' and 'hadamard' no circuit is returned
\* and nothing is submitted to the simulator.
C4_UnsupportedCoinRejected ==
  coin_type \notin {"grover", "hadamard"} => w_pc \notin Returned

\* C5: with n_steps = 0 the returned circuit is the coin initialisation followed
\* by the position measurement, no gate before the measurement touches a
\* position qubit, and the distribution is 1 at position 0 and 0 elsewhere.
C5_ZeroSteps ==
  (w_pc \in Returned /\ n_steps = 0) =>
    /\ Len(qc) = ClaimNCoin + n_position_qubits
    /\ \A i \in 1..ClaimNCoin : qc[i].op = "h" /\ qc[i].tgt = <<i - 1>>
    /\ \A i \in 1..n_position_qubits :
         /\ qc[ClaimNCoin + i].op = "measure"
         /\ qc[ClaimNCoin + i].tgt = <<ClaimPosQubits[i]>>
    /\ \A i \in DOMAIN qc :
         qc[i].op # "measure" =>
           (Range(qc[i].tgt) \cup Range(qc[i].ctrl)) \cap Range(ClaimPosQubits) = {}
    /\ w_pc = "done" =>
         /\ DOMAIN probabilities = 0..(Pow2(n_position_qubits) - 1)
         /\ probabilities[0][1] = probabilities[0][2]
         /\ \A i \in 1..(Pow2(n_position_qubits) - 1) : probabilities[i][1] = 0

C5_Witness ==
  /\ w_pc = "done" /\ n_steps = 0 /\ n_position_qubits = 2
  /\ coin_type = "grover" /\ shots = 2
  /\ probabilities[0] = <<2, 2>>

\* C9: a returned circuit is one Hadamard per coin qubit, then n_steps times
\* (coin operator on coin qubits only, then cx and the mcx chain), then one
\* measurement of position qubit i into classical bit i; no coin qubit is
\* measured; the coin register has 1 qubit for 'hadamard', k otherwise.
C9_GateOrder ==
  w_pc \in Returned =>
    /\ n_coin = ClaimNCoin
    /\ Len(qc) = ClaimNCoin + n_steps * ClaimStride + n_position_qubits
    /\ \A i \in 1..ClaimNCoin : qc[i].op = "h" /\ qc[i].tgt = <<i - 1>>
    /\ \A s \in 0..(n_steps - 1) :
         LET b == ClaimStepBase(s)
         IN  /\ qc[b + 1].op \in {"h", "unitary"}
             /\ Range(qc[b + 1].tgt) \subseteq 0..(ClaimNCoin - 1)
             /\ qc[b + 1].ctrl = <<>>
             /\ qc[b + 2].op = "cx"
             /\ qc[b + 2].ctrl = <<0>>
             /\ qc[b + 2].tgt = <<ClaimPosQubits[1]>>
             /\ \A i \in 1..(n_position_qubits - 1) :
                  /\ qc[b + 2 + i].op = "mcx"
                  /\ qc[b + 2 + i].tgt = <<ClaimPosQubits[i + 1]>>
                  /\ qc[b + 2 + i].ctrl = <<0>> \o SubSeq(ClaimPosQubits, 1, i)
    /\ \A i \in 1..n_position_qubits :
         LET g == qc[ClaimNCoin + n_steps * ClaimStride + i]
         IN  g.op = "measure" /\ g.tgt = <<ClaimPosQubits[i]>> /\ g.clbit = i - 1
    /\ \A i \in DOMAIN qc :
         qc[i].op = "measure" => i > ClaimNCoin + n_steps * ClaimStride

C9_Witness ==
  /\ w_pc = "built" /\ n_steps = 2 /\ n_position_qubits = 2
  /\ coin_type = "hadamard"

\* ------------------------------------- claims: Hamiltonians and evolution
\* C2: for a marked vertex in [0, N) the returned matrix is -gamma*A in every
\* entry, except the diagonal entry of the marked vertex, which is -gamma*A + 1.
C2_OracleLocality ==
  (h_fn = "build_search_hamiltonian" /\ h_pc = "returned"
     /\ marked_vertex \in Nodes(graph_n)) =>
    \A i \in Nodes(graph_n), j \in Nodes(graph_n) :
      RatEq(H[i][j],
            <<(IF i = marked_vertex /\ j = marked_vertex THEN gamma[2] ELSE 0)
                - gamma[1] * A[i][j],
              gamma[2]>>)

C2_Witness ==
  /\ h_fn = "build_search_hamiltonian" /\ h_pc = "returned"
  /\ graph_n = 3 /\ marked_vertex = 1 /\ gamma = <<1, 2>>
  /\ A[1][1] = 1 /\ A[0][1] = 1 /\ A[0][2] = 0
  /\ RatEq(H[1][1], <<1, 2>>) /\ RatEq(H[0][1], <<-1, 2>>)
  /\ RatEq(H[0][0], <<0, 1>>) /\ RatEq(H[0][2], <<0, 1>>)

\* C3: build_search_hamiltonian returns a Hamiltonian exactly for the marked
\* vertices in [0, N) and ends in an IndexError, with no Hamiltonian, for every
\* other index, the negative ones included.
C3_IndexErrorOutsideRange ==
  (h_fn = "build_search_hamiltonian" /\ h_pc # "idle") =>
    /\ h_pc = "returned" <=> marked_vertex \in Nodes(graph_n)
    /\ marked_vertex \notin Nodes(graph_n) => (h_pc = "IndexError" /\ H = NoGraph)

\* C7: the matrix adjacency_hamiltonian returns to evolve_continuous_walk is
\* -gamma*A, and the evolution operator is exp(-i*H*t) of that matrix (the
\* coefficient of i in the exponent is gamma*A*t).
C7_PlainHamiltonian ==
  (h_fn = "evolve_continuous_walk" /\ h_pc = "returned") =>
    \A i \in Nodes(graph_n), j \in Nodes(graph_n) :
      /\ RatEq(H[i][j], <<-gamma[1] * A[i][j], gamma[2]>>)
      /\ RatEq(psi_t.expm_i[i][j],
               <<gamma[1] * A[i][j] * time[1], gamma[2] * time[2]>>)

\* --------------------------------------------------- claims: the search
\* C6: a returned result holds, at each index, the marked-vertex probability of
\* that index's time; max_probability bounds every entry and is one of them;
\* optimal_time is the time of the first index that attains it.
C6_SearchResult ==
  s_pc = "done" =>
    LET sp == result.success_probs
        ts == result.times
        mx == result.max_probability
    IN  /\ n_time_steps >= 1
        /\ Len(sp) = n_time_steps /\ Len(ts) = n_time_steps
        /\ \A i \in 1..n_time_steps : sp[i] = marked_prob[ts[i]]
        /\ \A i \in 1..n_time_steps : mx >= sp[i]
        /\ \E j \in 1..n_time_steps :
             /\ sp[j] = mx
             /\ \A k \in 1..(j - 1) : sp[k] # mx
             /\ result.optimal_time = ts[j]

C6_Witness ==
  /\ s_pc = "done" /\ n_time_steps = 3
  /\ result.success_probs = <<1, 2, 2>>
  /\ result.max_probability = 2
  /\ result.optimal_time = <<1, 2>>

\* ------------------------------------------ claims: classical hitting time
RECURSIVE ReachFrom(_, _)
ReachFrom(a, S) ==
  LET T == S \cup UNION {Neighbors(a, v) : v \in S}
  IN  IF T = S THEN S ELSE ReachFrom(a, T)

ClaimCap == 10 * graph_n * graph_n

HitPrecondition ==
  /\ t_pc # "idle"
  /\ \A v \in ReachFrom(A, {start}) : Neighbors(A, v) # {}

\* what C10 says of a run: the cap on every trial, the stopping condition, the
\* zero-step trial when start = target, all trials run, the range of the average
HitCapped ==
  /\ t_pc \in {"trials", "walking", "done"}
  /\ t_pc = "walking" => (steps >= 0 /\ steps <= ClaimCap)
  /\ (t_pc \in {"trials", "done"} /\ trial > 0) =>
       /\ steps >= 0 /\ steps <= ClaimCap + 1
       /\ current = target \/ steps = ClaimCap + 1
       /\ start = target => steps = 0
  /\ trial <= n_trials
  /\ t_pc \in {"trials", "walking"} => ENABLED HitNext
  /\ t_pc = "done" =>
       /\ trial = n_trials
       /\ average = <<total_steps, n_trials>>
       /\ 0 <= average[1]
       /\ average[1] <= (ClaimCap + 1) * average[2]

\* C10 as stated, for every n_trials: on a graph whose nodes reachable from
\* start all have a neighbour, every trial stops at target or as soon as its
\* step counter exceeds 10*N^2 (so after at most 10*N^2 + 1 steps, and 0 steps
\* when start = target), the call never ends in an error, all n_trials trials
\* are run, and the returned average lies in [0, 10*N^2 + 1].
C10_AsStated == HitPrecondition => HitCapped

\* C10, amended to n_trials >= 1: under the same precondition every trial is
\* capped as above and the call always terminates, returning an average in
\* [0, 10*N^2 + 1] after running all n_trials trials; with n_trials = 0 no
\* average is returned.
C10_HittingTimeCapped ==
  /\ []((HitPrecondition /\ n_trials >= 1) => HitCapped)
  /\ []((HitPrecondition /\ n_trials = 0) => t_pc # "done")
  /\ (HitPrecondition /\ n_trials >= 1) ~> (t_pc = "done")

C10_Witness ==
  /\ t_pc = "done" /\ graph_n = 3 /\ n_trials = 2
  /\ start = 0 /\ target = 1 /\ A[0][2] = 1 /\ A[2][1] = 1
  /\ trial = 2 /\ steps = 2 /\ current = 1
  /\ average = <<93, 2>>

====
